---------------------------- MODULE Spec2Model ----------------------------
(***************************************************************************)
(* A model of FalseBot's discordBot.py: the gateway session                *)
(* (discord_bot_connection: start, handle_message, handle_dispatch,        *)
(* heartbeat, the dispatch and message registries) and the chat match      *)
(* engine (discord_chat_handler: register_match, handle_message_create,    *)
(* the per-channel buffer), and the tasks create_message schedules.        *)
(*                                                                         *)
(* Python's None is the string "None" where the field holds a name (user,  *)
(* session_id, an exception) and NoSequence where it holds a sequence      *)
(* number.  Objects of the wire protocol are records.  Attributes the      *)
(* classes declare at class level and only mutate in place (guilds, the    *)
(* registries, channelBuffer) are one variable each; attributes assigned   *)
(* through self (user, session_id, ack, sequence, bufferSize) are indexed  *)
(* by instance.                                                            *)
(***************************************************************************)
EXTENDS Integers, Sequences, FiniteSets, TLC

\* ------------------------------------------------------------------ bounds
NumBots == 2          \* instances of discord_bot_connection in the process
MaxSeq == 2           \* sequence numbers s the server assigns: 1..MaxSeq
MaxMonitors == 2      \* heartbeat tasks started per session (one per Hello)
MaxBeats == 3         \* heartbeat cycles run per session
MaxMatchers == 2      \* entries of match_registry
MaxChatEvents == 3    \* envelopes received in the chat specification
MaxBufferSize == 3    \* largest bufferSize keyword argument
MaxHist == 4          \* MESSAGE_CREATE events received in the buffer specification
MaxLoopEvents == 2    \* envelopes whose handler suspends, in the read-loop specification
MaxSends == 3         \* calls of say_in_channel

\* ----------------------------------------------------------------- opcodes
DISPATCH == 0
HEARTBEAT == 1
IDENTIFY == 2
STATUS_UPDATE == 3
RECONNECT == 7
INVALID_SESSION == 9
HELLO == 10
HEARTBEAT_ACK == 11

\* ------------------------------------------------------------------ values
None == "None"
NoSequence == 0                 \* sequence = None
DefaultBufferSize == 3          \* bufferSize when the keyword is absent

Bots == 1..NumBots
Null == [null |-> TRUE]         \* a payload d the handling does not read

Ev(ev, key, idx) == [ev |-> ev, key |-> key, idx |-> idx]

\* Envelopes: {"op": op, "d": d, "s": s, "t": t}
Envelope(op, d, s, t) == [op |-> op, d |-> d, s |-> s, t |-> t]
NoMsg == Envelope(-1, Null, NoSequence, None)

\* A call of an operation of instance `bot`.
Call(op, bot, arg) == [op |-> op, bot |-> bot, arg |-> arg]

UserIds == {"U1", "U2"}
SessionIds == {"S1", "S2"}
GuildIds == {"G1", "G2"}
ChannelIds == {"C1", "C2"}

\* A guild object; the READY payload lists the bot's guilds as unavailable.
Guild(id, unavailable, name) == [id |-> id, unavailable |-> unavailable, name |-> name]

ReadyPayloads ==
    { [user |-> "U1", session_id |-> "S1", guilds |-> <<Guild("G1", TRUE, "")>>],
      [user |-> "U2", session_id |-> "S2", guilds |-> <<Guild("G2", TRUE, "")>>] }

\* A message object: author stands for message['author']['id'].
Message(channel_id, author, content) ==
    [channel_id |-> channel_id, author |-> author, content |-> content]
NoMessage == Message(None, None, None)      \* an empty slot (None) of a buffer

\* Callables handed to the registries.  h_raise raises when called.
Functions == {"h1", "h2", "h_raise"}
Raises(func) == func = "h_raise"

\* Callables handed to register_match as matchers (predicates over a message).
Matchers == {"is_ping", "always"}
Matches(matcher, message) ==
    IF matcher = "is_ping" THEN message.content = "ping" ELSE TRUE

\* A registered callable: a plain function, or the bound method
\* handle_message_create of the chat handler attached to bot `engine`.
Func(fn) == [fn |-> fn, engine |-> 0]
BoundHandleMessageCreate(e) == [fn |-> "handle_message_create", engine |-> e]

EmptyDict == [k \in {} |-> Null]

\* The read loop of start() when it awaits no handler: `begun` envelopes were
\* handed to a handler that suspended, `done` of them completed.
NotHandling == [msg |-> NoMsg, r |-> Null, begun |-> 0, done |-> 0]

VARIABLES
    \* discord_bot_connection, per instance
    user, session_id, ack, sequence,
    rl,             \* where start() is: "idle", "reading", "handling" (awaiting a
                    \* suspended handler), "crashed", "closed"
    sent,           \* the payloads written to the websocket, in order
    hb,             \* the heartbeat tasks: a sequence of [pc, beats, flag]
    \* discord_bot_connection, class level
    guilds, dispatch_registry, message_registry,
    \* discord_chat_handler
    engine,         \* per bot: a chat handler has been constructed on it
    bufferSize,     \* per chat handler
    channelBuffer, match_registry,      \* class level
    \* what the last operation logged and called, and what it raised
    trace, exc,
    last,           \* the last operation: [op, bot, arg]
    \* history
    lastS,          \* per bot: s of the last Dispatch envelope handled
    ackSince,       \* per bot: a HeartbeatAck was handled since the last heartbeat was written
    failed,         \* per bot: a heartbeat cycle has found ack false
    beatAfterFailure, \* per bot: a heartbeat was written by or after such a cycle
    hist,           \* per channel: the messages handle_message_create received
    first, latest,  \* per registry and key: the first and the latest callable registered
    \* coroutines suspended at an await
    handling,       \* per bot: the envelope whose handler the read loop awaits, and
                    \* the envelopes begun and completed so far
    rest            \* the create_message_async tasks, and the tasks in the order
                    \* their requests reached the REST API and in the order they completed

botVars == <<user, session_id, ack, sequence, rl, sent, hb>>
classVars == <<guilds, dispatch_registry, message_registry>>
chatVars == <<engine, bufferSize, channelBuffer, match_registry>>
lastVars == <<trace, exc, last>>
histVars == <<lastS, ackSince, failed, beatAfterFailure, hist, first, latest>>
taskVars == <<handling, rest>>
vars == <<botVars, classVars, chatVars, lastVars, histVars, taskVars>>

\* The envelope the last operation handled, if it was handle_message.
lastMsg == IF last.op = "handle_message" THEN last.arg ELSE NoMsg
lastBot == last.bot

\* --------------------------------------------------- discord_chat_handler

\* The buffer as it would be if the newest slot were popped (pop() for pop(0)).
BufferAppend_PopsNewest(e, message) ==
    IF bufferSize[e] > 0
    THEN LET cid == message.channel_id
             cur == IF cid \in DOMAIN channelBuffer
                    THEN channelBuffer[cid]
                    ELSE [i \in 1..bufferSize[e] |-> NoMessage]
         IN  (cid :> Append(SubSeq(cur, 1, Len(cur) - 1), message)) @@ channelBuffer
    ELSE channelBuffer

\* handle_message_create, lines 141-146: the channel's buffer after `message`.
\* A channel seen for the first time gets bufferSize empty slots; the oldest
\* slot is popped and the message appended.
BufferAppend(e, message) ==
    IF bufferSize[e] > 0
    THEN LET cid == message.channel_id
             cur == IF cid \in DOMAIN channelBuffer
                    THEN channelBuffer[cid]
                    ELSE [i \in 1..bufferSize[e] |-> NoMessage]
         IN  (cid :> Append(Tail(cur), message)) @@ channelBuffer
    ELSE channelBuffer

\* Line 149: the entry is skipped for a message of the bot's own user.
SkipsSelf(e, matcher, message) ==
    message.author = user[e] /\ matcher.no_self_respond

\* handle_message_create, lines 148-152: the loop over match_registry[0] from
\* entry i on, with the events logged so far.  Reading user['id'] while user
\* is None raises TypeError; a handler that raises ends the loop.
RECURSIVE MatchLoop(_, _, _, _)
MatchLoop(e, message, i, tr) ==
    IF i > Len(match_registry[1])
    THEN [trace |-> tr, exc |-> None]
    ELSE LET matcher == match_registry[1][i]
             func == match_registry[2][i]
         IN  IF user[e] = None
             THEN [trace |-> tr, exc |-> "TypeError"]
             ELSE IF SkipsSelf(e, matcher, message)
             THEN MatchLoop(e, message, i + 1, tr)
             ELSE LET tr1 == Append(tr, Ev("matcher", matcher.matcher, i))
                  IN  IF Matches(matcher.matcher, message)
                      THEN LET tr2 == Append(tr1, Ev("match_func", func.fn, i))
                           IN  IF Raises(func.fn)
                               THEN [trace |-> tr2, exc |-> "HandlerError"]
                               ELSE MatchLoop(e, message, i + 1, tr2)
                      ELSE MatchLoop(e, message, i + 1, tr1)

\* handle_message_create(message) of the chat handler attached to bot e.
handle_message_create(e, message) ==
    LET r == MatchLoop(e, message, 1, <<>>)
    IN  [channelBuffer |-> BufferAppend(e, message),
         hist |-> [hist EXCEPT ![message.channel_id] = Append(@, message)],
         trace |-> r.trace, exc |-> r.exc]

\* Calling a registered callable with a dispatch event (line 377).
CallEventHandler(h, event) ==
    IF h.fn = "handle_message_create"
    THEN LET r == handle_message_create(h.engine, event)
         IN  [r EXCEPT !.trace = <<Ev("event_func", h.fn, h.engine)>> \o @]
    ELSE [channelBuffer |-> channelBuffer, hist |-> hist,
          trace |-> <<Ev("event_func", h.fn, h.engine)>>,
          exc |-> IF Raises(h.fn) THEN "HandlerError" ELSE None]

\* ------------------------------------------------- discord_bot_connection

\* Lines 364-365: for g in event['guilds']: self.guilds[g['id']] = g
RECURSIVE StoreGuilds(_, _)
StoreGuilds(gs, list) ==
    IF list = <<>> THEN gs
    ELSE StoreGuilds((Head(list).id :> Head(list)) @@ gs, Tail(list))

\* READY as it would be with the assignments under an else: a repeated READY
\* only warns.
ReadyBranch_KeepsFirst(b, event) ==
    IF session_id[b] # None
    THEN [user |-> user[b], session_id |-> session_id[b], guilds |-> guilds,
          trace |-> <<Ev("warn", "READY", 0)>>, exc |-> None]
    ELSE [user |-> event.user, session_id |-> event.session_id,
          guilds |-> StoreGuilds(guilds, event.guilds), trace |-> <<>>, exc |-> None]

\* handle_dispatch, lines 358-367: the READY branch.  A truthy session_id
\* only prints the warning; the assignments follow in every case.
ReadyBranch(b, event) ==
    [user |-> event.user,
     session_id |-> event.session_id,
     guilds |-> StoreGuilds(guilds, event.guilds),
     trace |-> IF session_id[b] # None THEN <<Ev("warn", "READY", 0)>> ELSE <<>>,
     exc |-> None]

\* handle_dispatch, lines 369-373: the GUILD_CREATE branch.  guilds[gid] of
\* an unknown gid raises KeyError; for a known, available guild the warning's
\* f-string reads the undefined name `guild` and raises NameError.
GuildCreateBranch(b, event) ==
    LET gid == event.id
        same == [user |-> user[b], session_id |-> session_id[b], guilds |-> guilds,
                 trace |-> <<>>, exc |-> None]
    IN  IF gid \notin DOMAIN guilds THEN [same EXCEPT !.exc = "KeyError"]
        ELSE IF ~guilds[gid].unavailable THEN [same EXCEPT !.exc = "NameError"]
        ELSE [same EXCEPT !.guilds = (gid :> event) @@ guilds]

\* handle_dispatch(message), lines 354-377.
handle_dispatch(b, message) ==
    LET eventType == message.t
        event == message.d
        r == IF eventType = "READY" THEN ReadyBranch(b, event)
             ELSE IF eventType = "GUILD_CREATE" THEN GuildCreateBranch(b, event)
             ELSE [user |-> user[b], session_id |-> session_id[b], guilds |-> guilds,
                   trace |-> <<>>, exc |-> None]
        base == [user |-> r.user, session_id |-> r.session_id, guilds |-> r.guilds,
                 channelBuffer |-> channelBuffer, hist |-> hist,
                 trace |-> r.trace, exc |-> r.exc]
    IN  IF r.exc = None /\ eventType \in DOMAIN dispatch_registry
        THEN LET c == CallEventHandler(dispatch_registry[eventType], event)
             IN  [base EXCEPT !.channelBuffer = c.channelBuffer, !.hist = c.hist,
                              !.trace = @ \o c.trace, !.exc = c.exc]
        ELSE base

\* Opcodes handle_message has a branch for (lines 395-414).
HandledOps == {DISPATCH, HEARTBEAT, RECONNECT, INVALID_SESSION, HELLO, HEARTBEAT_ACK}

\* Line 396: `sequence = message['s']` binds a local name; self.sequence
\* keeps its value.
SequenceAfterDispatch(b, message) == sequence[b]

\* ack as it would be if the server's own Heartbeat (op 1) also counted as an
\* acknowledgement.
AckAfter_HeartbeatCounts(b, op) ==
    IF op \in {HEARTBEAT, HEARTBEAT_ACK} THEN TRUE ELSE ack[b]

\* Lines 413-414: ack after the built-in handling of an envelope of `op`.
AckAfter(b, op) == IF op = HEARTBEAT_ACK THEN TRUE ELSE ack[b]

\* handle_message(message), lines 379-421: the built-in handling by opcode,
\* then the callable registered for the opcode.  The else branch formats the
\* undefined name `op` and raises NameError before anything is printed.
handle_message(b, message) ==
    LET opcode == message.op
        same == [user |-> user[b], session_id |-> session_id[b], guilds |-> guilds,
                 channelBuffer |-> channelBuffer, hist |-> hist,
                 trace |-> <<>>, exc |-> None]
        d == IF opcode = DISPATCH THEN handle_dispatch(b, message)
             ELSE IF opcode \in HandledOps THEN same
             ELSE [same EXCEPT !.exc = "NameError"]
        called == d.exc = None /\ opcode \in DOMAIN message_registry
        func == message_registry[opcode]
    IN  [user |-> d.user, session_id |-> d.session_id, guilds |-> d.guilds,
         channelBuffer |-> d.channelBuffer, hist |-> d.hist,
         sequence |-> IF opcode = DISPATCH THEN SequenceAfterDispatch(b, message)
                      ELSE sequence[b],
         ack |-> AckAfter(b, opcode),
         hello |-> opcode = HELLO,
         trace |-> IF called THEN Append(d.trace, Ev("message_func", func.fn, opcode))
                   ELSE d.trace,
         exc |-> IF called /\ Raises(func.fn) THEN "HandlerError" ELSE d.exc]

\* identify(), lines 425-438: the payload send_payload writes.
IdentifyPayload == [op |-> IDENTIFY, d |-> [token |-> "botToken"]]

\* heartbeat(), line 349: the payload send_payload writes.
HeartbeatPayload(b) == [op |-> HEARTBEAT, d |-> [seq |-> sequence[b]]]

\* A heartbeat task as ensure_future leaves it (line 411): scheduled, no cycle run.
NewMonitor == [pc |-> "ready", beats |-> 0, flag |-> FALSE]

Beats(b) == LET RECURSIVE Sum(_)
                Sum(i) == IF i = 0 THEN 0 ELSE hb[b][i].beats + Sum(i - 1)
            IN  Sum(Len(hb[b]))

\* register_dispatch as it would be if a bound key kept its first callable.
register_dispatch_KeepsFirst(event, func) ==
    IF event \in DOMAIN dispatch_registry THEN dispatch_registry
    ELSE (event :> func) @@ dispatch_registry

\* register_dispatch(event, func), line 262: dispatch_registry afterwards.
register_dispatch(event, func) == (event :> func) @@ dispatch_registry

\* register_message(opcode, func), line 276: message_registry afterwards.
register_message(opcode, func) == (opcode :> func) @@ message_registry

\* register_match(matcher, func, no_self_respond), lines 112-118.  When the
\* entry is already in match_registry[0] the warning's f-string reads the
\* undefined name `expression` and raises NameError before anything is appended.
register_match(matcher, func, no_self_respond) ==
    LET entry == [matcher |-> matcher, no_self_respond |-> no_self_respond]
    IN  IF entry \in { match_registry[1][i] : i \in 1..Len(match_registry[1]) }
        THEN [registry |-> match_registry, exc |-> "NameError"]
        ELSE [registry |-> << Append(match_registry[1], entry),
                              Append(match_registry[2], Func(func)) >>,
              exc |-> None]

\* What instance b reads as self.dispatch_registry, self.message_registry and
\* self.guilds, and what the chat handler of bot e reads as self.match_registry
\* and self.channelBuffer: the attribute is looked up on the instance, which
\* never binds it, and found on the class (lines 245, 258, 272, 98, 110).
DispatchRegistryOf(b) == dispatch_registry
MessageRegistryOf(b) == message_registry
GuildsOf(b) == guilds
MatchRegistryOf(e) == match_registry
ChannelBufferOf(e) == channelBuffer

\* The first callable registered under `key`, given the registration of func.
FirstOf(reg, key, func) == IF key \in DOMAIN reg THEN reg ELSE (key :> func) @@ reg

\* The websocket of line 447 is open: start() is inside the read loop.
Open(b) == rl[b] \in {"reading", "handling"}

\* The read loop as it would be if it scheduled handle_message as a task
\* instead of awaiting it: the next envelope is read while a handler is suspended.
CanRead_FireAndForget(b) == Open(b)

\* Lines 449-450: the read loop takes the next envelope only at the
\* `async for`, which it reaches when the awaited handle_message has returned.
CanRead(b) == rl[b] = "reading"

\* The handling of an envelope calls a registered callable: the awaits of
\* lines 152, 377 and 421 are where handle_message can be suspended.
CallsHandler(r) ==
    \E i \in 1..Len(r.trace) : r.trace[i].ev \in {"event_func", "match_func", "message_func"}

\* ---------------------------------------------------------------- actions

\* start(), lines 444-448: the gateway URL is fetched, the websocket opened
\* and identify() awaited before the first envelope is read.
Start(b) ==
    /\ rl[b] = "idle"
    /\ rl' = [rl EXCEPT ![b] = "reading"]
    /\ sent' = [sent EXCEPT ![b] = Append(@, IdentifyPayload)]
    /\ trace' = <<>>
    /\ exc' = None
    /\ last' = Call("start", b, Null)
    /\ UNCHANGED <<user, session_id, ack, sequence, hb, classVars, chatVars, histVars, taskVars>>

\* start(), lines 449-450: one iteration of the read loop, handle_message
\* awaited to its end.  An exception leaves the loop and closes the websocket.
Receive(b, message) ==
    /\ rl[b] = "reading"
    /\ message.op = HELLO => Len(hb[b]) < MaxMonitors
    /\ LET r == handle_message(b, message)
       IN  /\ user' = [user EXCEPT ![b] = r.user]
           /\ session_id' = [session_id EXCEPT ![b] = r.session_id]
           /\ guilds' = r.guilds
           /\ channelBuffer' = r.channelBuffer
           /\ hist' = r.hist
           /\ sequence' = [sequence EXCEPT ![b] = r.sequence]
           /\ ack' = [ack EXCEPT ![b] = r.ack]
           /\ hb' = IF r.hello THEN [hb EXCEPT ![b] = Append(@, NewMonitor)] ELSE hb
           /\ rl' = [rl EXCEPT ![b] = IF r.exc = None THEN "reading" ELSE "crashed"]
           /\ trace' = r.trace
           /\ exc' = r.exc
    /\ last' = Call("handle_message", b, message)
    /\ lastS' = IF message.op = DISPATCH THEN [lastS EXCEPT ![b] = message.s] ELSE lastS
    /\ ackSince' = IF message.op = HEARTBEAT_ACK THEN [ackSince EXCEPT ![b] = TRUE]
                   ELSE ackSince
    /\ UNCHANGED <<sent, dispatch_registry, message_registry, engine, bufferSize,
                   match_registry, failed, beatAfterFailure, first, latest, taskVars>>

\* start(), lines 449-450, when a callable awaited by handle_message suspends:
\* the read loop takes the envelope and handle_message runs up to the
\* suspension.  Everything the built-in handling assigns (lines 362-365, 411,
\* 414, 141-146) is assigned before the first callable is awaited; what the
\* callables log and raise is known when the handling completes.
ReceiveBegin(b, message) ==
    /\ CanRead(b)
    /\ handling[b].begun < MaxLoopEvents
    /\ message.op = HELLO => Len(hb[b]) < MaxMonitors
    /\ LET r == handle_message(b, message)
       IN  /\ CallsHandler(r)
           /\ user' = [user EXCEPT ![b] = r.user]
           /\ session_id' = [session_id EXCEPT ![b] = r.session_id]
           /\ guilds' = r.guilds
           /\ channelBuffer' = r.channelBuffer
           /\ hist' = r.hist
           /\ sequence' = [sequence EXCEPT ![b] = r.sequence]
           /\ ack' = [ack EXCEPT ![b] = r.ack]
           /\ hb' = IF r.hello THEN [hb EXCEPT ![b] = Append(@, NewMonitor)] ELSE hb
           /\ handling' = [handling EXCEPT
                              ![b] = [msg |-> message,
                                      r |-> [trace |-> r.trace, exc |-> r.exc],
                                      begun |-> @.begun + 1, done |-> @.done]]
    /\ rl' = [rl EXCEPT ![b] = "handling"]
    /\ trace' = <<>>
    /\ exc' = None
    /\ last' = Call("handle_message_begin", b, message)
    /\ lastS' = IF message.op = DISPATCH THEN [lastS EXCEPT ![b] = message.s] ELSE lastS
    /\ ackSince' = IF message.op = HEARTBEAT_ACK THEN [ackSince EXCEPT ![b] = TRUE]
                   ELSE ackSince
    /\ UNCHANGED <<sent, dispatch_registry, message_registry, engine, bufferSize,
                   match_registry, failed, beatAfterFailure, first, latest, rest>>

\* The suspended callable resumes and handle_message runs to its end: the read
\* loop is back at the `async for`, or left by the exception a callable raised.
ReceiveEnd(b) ==
    /\ rl[b] = "handling"
    /\ rl' = [rl EXCEPT ![b] = IF handling[b].r.exc = None THEN "reading" ELSE "crashed"]
    /\ trace' = handling[b].r.trace
    /\ exc' = handling[b].r.exc
    /\ last' = Call("handle_message", b, handling[b].msg)
    /\ handling' = [handling EXCEPT
                       ![b] = [msg |-> NoMsg, r |-> Null,
                               begun |-> @.begun, done |-> @.done + 1]]
    /\ UNCHANGED <<user, session_id, ack, sequence, sent, hb, classVars, chatVars,
                   histVars, rest>>

\* The server closes the websocket: the read loop of start() ends (line 449).
Close(b) ==
    /\ rl[b] = "reading"
    /\ rl' = [rl EXCEPT ![b] = "closed"]
    /\ trace' = <<>>
    /\ exc' = None
    /\ last' = Call("close", b, Null)
    /\ UNCHANGED <<user, session_id, ack, sequence, sent, hb, classVars, chatVars, histVars,
                   taskVars>>

\* heartbeat(), lines 346-349: a cycle of task m begins.  It reports a missing
\* HEARTBEAT_ACK when ack is false and, in either case, hands the heartbeat to
\* send_payload, which writes it and awaits the websocket.  On a websocket that
\* is no longer open the send raises and the task ends.
HbBeat(b, m) ==
    /\ m \in 1..Len(hb[b])
    /\ hb[b][m].pc = "ready"
    /\ Beats(b) < MaxBeats
    /\ LET open == Open(b)
           flag == ~ack[b]
       IN  /\ hb' = [hb EXCEPT ![b][m] = [pc |-> IF open THEN "sending" ELSE "dead",
                                           beats |-> @.beats + 1, flag |-> flag]]
           /\ sent' = IF open THEN [sent EXCEPT ![b] = Append(@, HeartbeatPayload(b))]
                      ELSE sent
           /\ failed' = [failed EXCEPT ![b] = @ \/ flag]
           /\ beatAfterFailure' = [beatAfterFailure EXCEPT
                                      ![b] = @ \/ (open /\ (failed[b] \/ flag))]
           /\ ackSince' = IF open THEN [ackSince EXCEPT ![b] = FALSE] ELSE ackSince
           /\ trace' = IF flag THEN <<Ev("fatal", "HEARTBEAT_ACK", m)>> ELSE <<>>
           /\ exc' = IF open THEN None ELSE "ConnectionError"
    /\ last' = Call("heartbeat", b, Null)
    /\ UNCHANGED <<user, session_id, ack, sequence, rl, classVars, chatVars, lastS, hist,
                   first, latest, taskVars>>

\* heartbeat(), lines 350-351: the send returns, ack is reset and the task sleeps.
HbReset(b, m) ==
    /\ m \in 1..Len(hb[b])
    /\ hb[b][m].pc = "sending"
    /\ hb' = [hb EXCEPT ![b][m].pc = "ready"]
    /\ ack' = [ack EXCEPT ![b] = FALSE]
    /\ trace' = <<>>
    /\ exc' = None
    /\ last' = Call("heartbeat_reset", b, Null)
    /\ UNCHANGED <<user, session_id, sequence, rl, sent, classVars, chatVars, histVars,
                   taskVars>>

\* bot.register_dispatch(event, func), lines 259-262: warns when the event is
\* bound already and binds it to func.
RegisterDispatch(b, event, func) ==
    /\ dispatch_registry' = register_dispatch(event, Func(func))
    /\ trace' = IF event \in DOMAIN dispatch_registry
                THEN <<Ev("warn", "register_dispatch", 0)>> ELSE <<>>
    /\ exc' = None
    /\ last' = Call("register_dispatch", b, [key |-> event, func |-> Func(func)])
    /\ first' = [first EXCEPT !.dispatch = FirstOf(@, event, Func(func))]
    /\ latest' = [latest EXCEPT !.dispatch = (event :> Func(func)) @@ @]
    /\ UNCHANGED <<botVars, guilds, message_registry, chatVars,
                   lastS, ackSince, failed, beatAfterFailure, hist, taskVars>>

\* bot.register_message(opcode, func), lines 273-276.
RegisterMessage(b, opcode, func) ==
    /\ message_registry' = register_message(opcode, Func(func))
    /\ trace' = IF opcode \in DOMAIN message_registry
                THEN <<Ev("warn", "register_message", 0)>> ELSE <<>>
    /\ exc' = None
    /\ last' = Call("register_message", b, [key |-> opcode, func |-> Func(func)])
    /\ first' = [first EXCEPT !.message = FirstOf(@, opcode, Func(func))]
    /\ latest' = [latest EXCEPT !.message = (opcode :> Func(func)) @@ @]
    /\ UNCHANGED <<botVars, guilds, dispatch_registry, chatVars,
                   lastS, ackSince, failed, beatAfterFailure, hist, taskVars>>

\* discord_chat_handler(bot, **kwargs), lines 100-107: binds MESSAGE_CREATE to
\* its handle_message_create and takes bufferSize from the keyword, or 3.
\* kwargs is <<>> or <<bufferSize>>.
NewChatHandler(b, kwargs) ==
    /\ ~engine[b]
    /\ dispatch_registry' = register_dispatch("MESSAGE_CREATE", BoundHandleMessageCreate(b))
    /\ engine' = [engine EXCEPT ![b] = TRUE]
    /\ bufferSize' = [bufferSize EXCEPT
                         ![b] = IF kwargs = <<>> THEN DefaultBufferSize ELSE kwargs[1]]
    /\ trace' = IF "MESSAGE_CREATE" \in DOMAIN dispatch_registry
                THEN <<Ev("warn", "register_dispatch", 0)>> ELSE <<>>
    /\ exc' = None
    /\ last' = Call("discord_chat_handler", b, [kwargs |-> kwargs])
    /\ first' = [first EXCEPT
                    !.dispatch = FirstOf(@, "MESSAGE_CREATE", BoundHandleMessageCreate(b))]
    /\ latest' = [latest EXCEPT
                     !.dispatch = ("MESSAGE_CREATE" :> BoundHandleMessageCreate(b)) @@ @]
    /\ UNCHANGED <<botVars, guilds, message_registry, channelBuffer, match_registry,
                   lastS, ackSince, failed, beatAfterFailure, hist, taskVars>>

\* ch.register_match(matcher, func, no_self_respond) on the chat handler of bot e.
RegisterMatch(e, matcher, func, no_self_respond) ==
    /\ engine[e]
    /\ LET r == register_match(matcher, func, no_self_respond)
       IN  /\ match_registry' = r.registry
           /\ exc' = r.exc
    /\ trace' = <<>>
    /\ last' = Call("register_match", e,
                    [matcher |-> matcher, func |-> Func(func),
                     no_self_respond |-> no_self_respond])
    /\ UNCHANGED <<botVars, classVars, engine, bufferSize, channelBuffer, histVars, taskVars>>

\* bot.say_in_channel(channel_id, message), lines 317-323: create_message
\* schedules create_message_async as a task of its own and returns.
SayInChannel(b, channel_id, message) ==
    /\ Len(rest.tasks) < MaxSends
    /\ rest' = [rest EXCEPT !.tasks = Append(@, [bot |-> b, channel_id |-> channel_id,
                                                 content |-> message, pc |-> "scheduled"])]
    /\ trace' = <<>>
    /\ exc' = None
    /\ last' = Call("say_in_channel", b, [channel_id |-> channel_id, content |-> message])
    /\ UNCHANGED <<botVars, classVars, chatVars, histVars, handling>>

\* api_post_call, lines 304-305, in task i: the task opens a ClientSession of
\* its own, connects, and its POST reaches the REST API.  Each task has its
\* own connection, so any scheduled task may be the next whose request arrives.
PostIssue(i) ==
    /\ i \in 1..Len(rest.tasks)
    /\ rest.tasks[i].pc = "scheduled"
    /\ rest' = [rest EXCEPT !.tasks[i].pc = "posting", !.requests = Append(@, i)]
    /\ trace' = <<>>
    /\ exc' = None
    /\ last' = Call("api_post_call", rest.tasks[i].bot, [task |-> i])
    /\ UNCHANGED <<botVars, classVars, chatVars, histVars, handling>>

\* api_post_call, lines 305-307, in task i: the response arrives; a status
\* other than 200 fails the assert and ends the task with AssertionError.
PostComplete(i, status) ==
    /\ i \in 1..Len(rest.tasks)
    /\ rest.tasks[i].pc = "posting"
    /\ rest' = [rest EXCEPT !.tasks[i].pc = IF status = 200 THEN "done" ELSE "failed",
                            !.responses = Append(@, i)]
    /\ trace' = <<>>
    /\ exc' = IF status = 200 THEN None ELSE "AssertionError"
    /\ last' = Call("api_post_response", rest.tasks[i].bot, [task |-> i])
    /\ UNCHANGED <<botVars, classVars, chatVars, histVars, handling>>

\* ------------------------------------------------------------ specifications

\* The state after the classes are defined and the instances constructed
\* (lines 98, 110, 242-258, 272, 341-342): nothing registered, nothing known.
Init ==
    /\ user = [b \in Bots |-> None]
    /\ session_id = [b \in Bots |-> None]
    /\ ack = [b \in Bots |-> TRUE]
    /\ sequence = [b \in Bots |-> NoSequence]
    /\ rl = [b \in Bots |-> "idle"]
    /\ sent = [b \in Bots |-> <<>>]
    /\ hb = [b \in Bots |-> <<>>]
    /\ guilds = EmptyDict
    /\ dispatch_registry = EmptyDict
    /\ message_registry = EmptyDict
    /\ engine = [b \in Bots |-> FALSE]
    /\ bufferSize = [b \in Bots |-> 0]
    /\ channelBuffer = EmptyDict
    /\ match_registry = << <<>>, <<>> >>
    /\ trace = <<>>
    /\ exc = None
    /\ last = Call("init", 0, Null)
    /\ lastS = [b \in Bots |-> NoSequence]
    /\ ackSince = [b \in Bots |-> FALSE]
    /\ failed = [b \in Bots |-> FALSE]
    /\ beatAfterFailure = [b \in Bots |-> FALSE]
    /\ hist = [c \in ChannelIds |-> <<>>]
    /\ first = [dispatch |-> EmptyDict, message |-> EmptyDict]
    /\ latest = [dispatch |-> EmptyDict, message |-> EmptyDict]
    /\ handling = [b \in Bots |-> NotHandling]
    /\ rest = [tasks |-> <<>>, requests |-> <<>>, responses |-> <<>>]

\* The envelopes the gateway sends in the session specification.
DispatchEvents ==
    { [t |-> "READY", d |-> p] : p \in ReadyPayloads }
    \cup { [t |-> "GUILD_CREATE", d |-> Guild(g, FALSE, "name")] : g \in GuildIds }
    \cup { [t |-> "TYPING_START", d |-> Null] }

GatewayEnvelopes ==
    { Envelope(DISPATCH, e.d, s, e.t) : e \in DispatchEvents, s \in 1..MaxSeq }
    \cup { Envelope(op, Null, NoSequence, None) :
             op \in {HEARTBEAT, RECONNECT, INVALID_SESSION, HEARTBEAT_ACK, STATUS_UPDATE} }
    \cup { Envelope(HELLO, [heartbeat_interval |-> 41250], NoSequence, None) }

\* One gateway session: start(), the read loop and the heartbeat tasks.
Next ==
    \/ Start(1)
    \/ \E message \in GatewayEnvelopes : Receive(1, message)
    \/ Close(1)
    \/ \E m \in 1..MaxMonitors : HbBeat(1, m)
    \/ \E m \in 1..MaxMonitors : HbReset(1, m)

Spec == Init /\ [][Next]_vars

\* The chat specification: one session with a chat handler, matchers being
\* registered, READY and MESSAGE_CREATE events of one channel arriving.
ChatMessages ==
    { Message("C1", a, c) : a \in UserIds, c \in {"ping", "pong"} }

ChatEnvelopes ==
    { Envelope(DISPATCH, p, 1, "READY") : p \in {x \in ReadyPayloads : x.user = "U1"} }
    \cup { Envelope(DISPATCH, m, 1, "MESSAGE_CREATE") : m \in ChatMessages }

Received == Len(hist["C1"]) + Len(hist["C2"])

NextChat ==
    \/ NewChatHandler(1, <<>>)
    \/ Start(1)
    \/ \E matcher \in Matchers, func \in Functions, nsr \in BOOLEAN :
          /\ Len(match_registry[1]) < MaxMatchers
          /\ RegisterMatch(1, matcher, func, nsr)
    \/ \E message \in ChatEnvelopes :
          /\ Received < MaxChatEvents
          /\ Receive(1, message)

SpecChat == Init /\ [][NextChat]_vars

\* The buffer specification: chat handlers of every bufferSize, MESSAGE_CREATE
\* events of two channels arriving.
BufferMessages ==
    { Message(c, "U2", x) : c \in ChannelIds, x \in {"ping", "pong"} }

BufferEnvelopes ==
    { Envelope(DISPATCH, m, 1, "MESSAGE_CREATE") : m \in BufferMessages }

NextBuffer ==
    \/ \E kwargs \in {<<>>} \cup { <<n>> : n \in 0..MaxBufferSize } : NewChatHandler(1, kwargs)
    \/ Start(1)
    \/ \E message \in BufferEnvelopes :
          /\ Received < MaxHist
          /\ Receive(1, message)

SpecBuffer == Init /\ [][NextBuffer]_vars

\* The registry specification: callables being registered and re-registered
\* for events and opcodes while envelopes arrive.
RegistryEnvelopes ==
    { Envelope(DISPATCH, Null, 1, "TYPING_START") }
    \cup { Envelope(DISPATCH, p, 1, "READY") : p \in {x \in ReadyPayloads : x.user = "U1"} }
    \cup { Envelope(op, Null, NoSequence, None) : op \in {HEARTBEAT, STATUS_UPDATE} }
    \cup { Envelope(DISPATCH, Guild("G1", FALSE, "name"), 1, "GUILD_CREATE") }

NextRegistry ==
    \/ Start(1)
    \/ \E event \in {"TYPING_START", "READY"}, func \in Functions :
          RegisterDispatch(1, event, func)
    \/ \E opcode \in {DISPATCH}, func \in Functions :
          RegisterMessage(1, opcode, func)
    \/ \E message \in RegistryEnvelopes : Receive(1, message)

SpecRegistry == Init /\ [][NextRegistry]_vars

\* The two-session specification: two instances in one process, each with its
\* chat handler, registering callables and receiving envelopes.
Sessions == {1, 2}

SharedEnvelopes ==
    { Envelope(DISPATCH, p, 1, "READY") : p \in ReadyPayloads }
    \cup { Envelope(DISPATCH, Message("C1", "U1", "ping"), 1, "MESSAGE_CREATE") }
    \cup { Envelope(DISPATCH, Null, 1, "TYPING_START") }

NextShared ==
    \/ \E b \in Sessions : NewChatHandler(b, <<>>)
    \/ \E b \in Sessions : Start(b)
    \/ \E b \in Sessions : RegisterDispatch(b, "TYPING_START", "h1")
    \/ \E e \in Sessions, nsr \in BOOLEAN :
          /\ Len(match_registry[1]) < MaxMatchers
          /\ RegisterMatch(e, "always", "h1", nsr)
    \/ \E b \in Sessions, message \in SharedEnvelopes :
          /\ Received < MaxChatEvents
          /\ Receive(b, message)

SpecShared == Init /\ [][NextShared]_vars

\* The read-loop specification: callables are registered before start(); then
\* envelopes arrive, their callables suspend and resume, and the heartbeat
\* tasks run in between.
LoopEnvelopes ==
    { Envelope(DISPATCH, Null, 1, "TYPING_START"),
      Envelope(HEARTBEAT_ACK, Null, NoSequence, None),
      Envelope(HELLO, [heartbeat_interval |-> 41250], NoSequence, None) }

NextLoop ==
    \/ \E func \in {"h1", "h_raise"} :
          /\ rl[1] = "idle"
          /\ RegisterDispatch(1, "TYPING_START", func)
    \/ /\ rl[1] = "idle"
       /\ RegisterMessage(1, HEARTBEAT_ACK, "h1")
    \/ Start(1)
    \/ \E message \in LoopEnvelopes : ReceiveBegin(1, message)
    \/ ReceiveEnd(1)
    \/ \E message \in LoopEnvelopes : Receive(1, message)
    \/ Close(1)
    \/ \E m \in 1..MaxMonitors : HbBeat(1, m)
    \/ \E m \in 1..MaxMonitors : HbReset(1, m)

SpecLoop == Init /\ [][NextLoop]_vars

\* The send specification: handlers call say_in_channel and the tasks it
\* creates run to their end.
NextSend ==
    \/ \E c \in ChannelIds : SayInChannel(1, c, "ping")
    \/ \E i \in 1..MaxSends : PostIssue(i)
    \/ \E i \in 1..MaxSends, status \in {200, 403} : PostComplete(i, status)

SpecSend == Init /\ [][NextSend]_vars

\* ------------------------------------------------------------------ claims

Range(f) == { f[i] : i \in DOMAIN f }

\* The step is the handling of an envelope by bot b.
Handled(b) == last'.op = "handle_message" /\ last'.bot = b

\* Task m of bot b begins a cycle on an open websocket in this step.
CycleBegins(b, m) ==
    /\ m \in 1..Len(hb[b])
    /\ hb[b][m].pc = "ready"
    /\ hb'[b][m].pc = "sending"

\* C1: once a Dispatch envelope with sequence number s has been handled, the
\* session's sequence field equals s, and a heartbeat written then carries d = s.
C1_SequenceTracksDispatch ==
    \A b \in Bots :
        lastS[b] # NoSequence =>
            /\ sequence[b] = lastS[b]
            /\ HeartbeatPayload(b).d.seq = lastS[b]

\* C2: Identify is written at most once per connection and only after a Hello
\* has been handled (handling Hello is what starts a heartbeat task).
C2_IdentifyAfterHello ==
    \A b \in Bots :
        LET identifies == { i \in 1..Len(sent[b]) : sent[b][i].op = IDENTIFY }
        IN  /\ Cardinality(identifies) <= 1
            /\ identifies # {} => Len(hb[b]) >= 1

\* C3 as claimed: once session_id is set, no step changes user, session_id or
\* the guilds the first READY stored.
C3_ReadySetOnce ==
    [][\A b \in Bots :
          Handled(b) /\ lastMsg'.t = "READY" /\ session_id[b] # None =>
              /\ user'[b] = user[b]
              /\ session_id'[b] = session_id[b]
              /\ guilds' = guilds]_vars

\* C3 as amended: every READY sets user and session_id from its payload and
\* stores the payload's guilds over the known ones; it warns of a repeat
\* exactly when session_id was already set.
C3_ReadyOverwrites ==
    [][\A b \in Bots :
          Handled(b) /\ lastMsg'.op = DISPATCH /\ lastMsg'.t = "READY" =>
              /\ user'[b] = lastMsg'.d.user
              /\ session_id'[b] = lastMsg'.d.session_id
              /\ guilds' = StoreGuilds(guilds, lastMsg'.d.guilds)
              /\ (Ev("warn", "READY", 0) \in Range(trace')) <=> (session_id[b] # None)]_vars

\* A second READY was handled: it warned, and user is the second payload's
\* while the first payload's guild is still known.
C3_Witness ==
    /\ lastMsg.t = "READY"
    /\ Ev("warn", "READY", 0) \in Range(trace)
    /\ user[1] = "U2"
    /\ session_id[1] = "S2"
    /\ DOMAIN guilds = {"G1", "G2"}

\* C4: a heartbeat cycle reports a liveness failure exactly when it is not the
\* task's first cycle and no HeartbeatAck was handled since the previous
\* heartbeat was written.
C4_FlagIffNoAck ==
    [][\A b \in Bots : \A m \in 1..MaxMonitors :
          CycleBegins(b, m) =>
              (hb'[b][m].flag <=> (hb[b][m].beats > 0 /\ ~ackSince[b]))]_vars

\* C5: once a cycle has found ack false, the session is no longer reading and
\* no heartbeat is written by that cycle or a later one.
C5_FailureEscalates ==
    \A b \in Bots : failed[b] => (rl[b] # "reading" /\ ~beatAfterFailure[b])

\* C6: the reset at the end of a cycle leaves ack false; ack turns true only by
\* handling a HeartbeatAck, which always sets it; handling an envelope of any
\* other opcode leaves ack as it was.
C6_AckProtocol ==
    [][\A b \in Bots :
          /\ (\E m \in 1..Len(hb[b]) : hb[b][m].pc = "sending" /\ hb'[b][m].pc = "ready")
                => ~ack'[b]
          /\ (~ack[b] /\ ack'[b]) => (Handled(b) /\ lastMsg'.op = HEARTBEAT_ACK)
          /\ (Handled(b) /\ lastMsg'.op = HEARTBEAT_ACK) => ack'[b]
          /\ (Handled(b) /\ lastMsg'.op # HEARTBEAT_ACK) => ack'[b] = ack[b]]_vars

\* After a cycle's reset an envelope other than HeartbeatAck was handled and
\* ack is still false.
C6_Witness ==
    /\ Len(hb[1]) >= 1
    /\ hb[1][1].pc = "ready"
    /\ hb[1][1].beats >= 1
    /\ lastMsg # NoMsg
    /\ lastMsg.op \notin {HEARTBEAT_ACK, HELLO}
    /\ ~ackSince[1]
    /\ ~ack[1]

\* The step hands a MESSAGE_CREATE event to the chat handler of bot e.
ChatHandled(b, e) ==
    /\ Handled(b)
    /\ lastMsg'.op = DISPATCH
    /\ lastMsg'.t = "MESSAGE_CREATE"
    /\ "MESSAGE_CREATE" \in DOMAIN dispatch_registry
    /\ dispatch_registry["MESSAGE_CREATE"] = BoundHandleMessageCreate(e)

\* The message is the session's own: its author is the user READY assigned.
OwnMessage(e, message) == user[e] # None /\ message.author = user[e]

\* What a fan-out over the registry logs for `message` from entry i on: each
\* entry that is not suppressed has its predicate evaluated and, if it matches,
\* its handler called, before the next entry is looked at.
RECURSIVE FanOut(_, _, _)
FanOut(e, message, i) ==
    IF i > Len(match_registry[1]) THEN <<>>
    ELSE LET entry == match_registry[1][i]
             fn == match_registry[2][i].fn
         IN  IF OwnMessage(e, message) /\ entry.no_self_respond
             THEN FanOut(e, message, i + 1)
             ELSE <<Ev("matcher", entry.matcher, i)>>
                  \o (IF Matches(entry.matcher, message)
                      THEN <<Ev("match_func", fn, i)>> ELSE <<>>)
                  \o FanOut(e, message, i + 1)

IsMatchEvent(x) == x.ev \in {"matcher", "match_func"}

\* C7: for every message the chat handler receives, the predicates evaluated
\* and handlers called are exactly those of a fan-out over the registry in
\* registration order: every matching entry's handler once, no other handler.
C7_FanOutInOrder ==
    [][\A e \in Bots :
          ChatHandled(e, e) =>
              SelectSeq(trace', IsMatchEvent) = FanOut(e, lastMsg'.d, 1)]_vars

\* C8: for a message of the session's own user an entry registered with
\* no_self_respond has neither predicate nor handler run and every other entry
\* is evaluated and, if it matches, called; for a message of another author
\* every entry is.
C8_SelfSuppressionPerEntry ==
    [][\A e \in Bots :
          ChatHandled(e, e) =>
              \A i \in 1..Len(match_registry[1]) :
                  LET entry == match_registry[1][i]
                      evaluated == Ev("matcher", entry.matcher, i) \in Range(trace')
                      called == Ev("match_func", match_registry[2][i].fn, i) \in Range(trace')
                  IN  IF OwnMessage(e, lastMsg'.d) /\ entry.no_self_respond
                      THEN ~evaluated /\ ~called
                      ELSE evaluated /\ (Matches(entry.matcher, lastMsg'.d) => called)]_vars

\* The last min(n, Len(h)) messages of h behind n - min(n, Len(h)) empty slots.
Window(h, n) ==
    LET k == IF Len(h) < n THEN Len(h) ELSE n
    IN  [i \in 1..(n - k) |-> NoMessage] \o SubSeq(h, Len(h) - k + 1, Len(h))

\* C9: with buffering enabled, every channel that has received a message has a
\* buffer of exactly bufferSize slots: its most recent messages in arrival
\* order behind empty slots; a channel without messages, or any channel when
\* bufferSize is 0, has no buffer.
C9_BufferIsWindow ==
    engine[1] =>
        \A c \in ChannelIds :
            IF bufferSize[1] > 0 /\ hist[c] # <<>>
            THEN /\ c \in DOMAIN channelBuffer
                 /\ Len(channelBuffer[c]) = bufferSize[1]
                 /\ channelBuffer[c] = Window(hist[c], bufferSize[1])
            ELSE c \notin DOMAIN channelBuffer

\* With the default bufferSize a channel's fourth message has evicted its
\* first, and the other channel's buffer holds its own single message.
C9_Witness ==
    /\ engine[1]
    /\ bufferSize[1] = DefaultBufferSize
    /\ Len(hist["C1"]) = DefaultBufferSize + 1
    /\ "C1" \in DOMAIN channelBuffer
    /\ channelBuffer["C1"] = Tail(hist["C1"])
    /\ hist["C1"][1] \notin Range(channelBuffer["C1"])

EventCalls(tr) == SelectSeq(tr, LAMBDA x : x.ev = "event_func")
MessageCalls(tr) == SelectSeq(tr, LAMBDA x : x.ev = "message_func")

\* C10: registering a key never raises: it warns exactly when the key is bound
\* and binds the key to the new callable; a dispatch of a key calls the
\* callable registered last for it, once, and no other.
C10_LastRegistrationWins ==
    [][/\ last'.op = "register_dispatch" =>
             /\ exc' = None
             /\ dispatch_registry'[last'.arg.key] = last'.arg.func
             /\ (Ev("warn", "register_dispatch", 0) \in Range(trace'))
                    <=> (last'.arg.key \in DOMAIN dispatch_registry)
       /\ last'.op = "register_message" =>
             /\ exc' = None
             /\ message_registry'[last'.arg.key] = last'.arg.func
             /\ (Ev("warn", "register_message", 0) \in Range(trace'))
                    <=> (last'.arg.key \in DOMAIN message_registry)
       /\ \A b \in Bots :
             Handled(b) /\ lastMsg'.op = DISPATCH =>
                 LET t == lastMsg'.t
                     calls == EventCalls(trace')
                 IN  IF t \in DOMAIN latest.dispatch
                     THEN LET f == latest.dispatch[t]
                          IN  /\ calls \in {<<>>, <<Ev("event_func", f.fn, f.engine)>>}
                              /\ exc' \notin {"KeyError", "NameError"} => calls # <<>>
                     ELSE calls = <<>>
       /\ \A b \in Bots :
             Handled(b) =>
                 LET op == lastMsg'.op
                     calls == MessageCalls(trace')
                 IN  IF op \in DOMAIN latest.message
                     THEN /\ calls \in {<<>>, <<Ev("message_func", latest.message[op].fn, op)>>}
                          /\ exc' = None => calls # <<>>
                     ELSE calls = <<>>]_vars

\* An event bound first to h1 and re-registered to h2 was dispatched: h2 was
\* called.
C10_Witness ==
    /\ last.op = "handle_message"
    /\ lastMsg.t = "TYPING_START"
    /\ "TYPING_START" \in DOMAIN first.dispatch
    /\ first.dispatch["TYPING_START"] = Func("h1")
    /\ latest.dispatch["TYPING_START"] = Func("h2")
    /\ EventCalls(trace) = <<Ev("event_func", "h2", 0)>>
    /\ exc = None


\* C11: registering a matcher that is already in match_registry (same
\* predicate, same no_self_respond) does not raise: register_match returns
\* normally and the entry is in the registry afterwards.
C11_DuplicateMatchNotAnError ==
    [][last'.op = "register_match" =>
          LET entry == [matcher |-> last'.arg.matcher,
                        no_self_respond |-> last'.arg.no_self_respond]
          IN  entry \in Range(match_registry[1]) =>
                  /\ exc' = None
                  /\ entry \in Range(match_registry'[1])]_vars

\* C12: handling an envelope of an opcode without a branch raises nothing,
\* changes no session field, calls the callable registered for the opcode, if
\* any, and leaves the read loop reading.
C12_UnknownOpcodeHarmless ==
    [][\A b \in Bots :
          Handled(b) /\ lastMsg'.op \notin HandledOps =>
              /\ exc' = None
              /\ rl'[b] = "reading"
              /\ UNCHANGED <<user, session_id, ack, sequence, guilds>>
              /\ lastMsg'.op \in DOMAIN message_registry =>
                     Len(MessageCalls(trace')) = 1]_vars

\* C13: handling GUILD_CREATE for guild g never raises and ends with guilds[g]
\* equal to the payload and the callable registered for GUILD_CREATE called,
\* whether g was unknown, known and unavailable, or known and available.
C13_GuildCreateStores ==
    [][\A b \in Bots :
          Handled(b) /\ lastMsg'.op = DISPATCH /\ lastMsg'.t = "GUILD_CREATE" =>
              /\ exc' = None
              /\ rl'[b] = "reading"
              /\ lastMsg'.d.id \in DOMAIN guilds'
              /\ guilds'[lastMsg'.d.id] = lastMsg'.d
              /\ "GUILD_CREATE" \in DOMAIN dispatch_registry =>
                     Len(EventCalls(trace')) = 1]_vars


\* C14: no operation of instance a (a registration or the handling of an
\* envelope) changes what another instance b reads as its event registry,
\* opcode registry, match registry, guild cache or channel buffers, and the
\* handle_message_create called for an envelope bot b received is that of b's
\* own chat handler.
C14_OwnedPerInstance ==
    [][\A a \in Bots : \A b \in Bots \ {a} :
          last'.bot = a =>
              /\ DispatchRegistryOf(b)' = DispatchRegistryOf(b)
              /\ MessageRegistryOf(b)' = MessageRegistryOf(b)
              /\ MatchRegistryOf(b)' = MatchRegistryOf(b)
              /\ GuildsOf(b)' = GuildsOf(b)
              /\ ChannelBufferOf(b)' = ChannelBufferOf(b)
              /\ last'.op = "handle_message" =>
                     \A i \in 1..Len(trace') :
                         trace'[i].ev = "event_func" /\ trace'[i].key = "handle_message_create"
                             => trace'[i].idx = a]_vars


\* C15: for every envelope handled whose opcode has a callable registered,
\* that callable is called exactly once with the envelope, as the last thing
\* the handling does: after the built-in handling and, for a Dispatch whose
\* event has a callable registered, after that callable was called and returned.
C15_OpcodeHandlerRunsLast ==
    [][\A b \in Bots :
          /\ Handled(b)
          /\ lastMsg'.op \in DOMAIN message_registry
          /\ ~(/\ lastMsg'.op = DISPATCH
               /\ lastMsg'.t \in DOMAIN dispatch_registry
               /\ Raises(dispatch_registry[lastMsg'.t].fn))
          => /\ MessageCalls(trace') =
                    <<Ev("message_func", message_registry[lastMsg'.op].fn, lastMsg'.op)>>
             /\ trace'[Len(trace')].ev = "message_func"
             /\ (lastMsg'.op = DISPATCH /\ lastMsg'.t \in DOMAIN dispatch_registry)
                    => Len(EventCalls(trace')) = 1]_vars


\* The heartbeat tasks of bot b that are running: scheduled or suspended in a send.
RunningMonitors(b) ==
    { m \in 1..Len(hb[b]) : hb[b][m].pc \in {"ready", "sending"} }

\* C16: at most one heartbeat task runs per session at any time, also when
\* Hello is received more than once on the connection.
C16_SingleMonitor ==
    \A b \in Bots : Cardinality(RunningMonitors(b)) <= 1


\* C17: once the websocket is closed and the read loop of start() has ended,
\* no heartbeat task of the session runs a further cycle or attempts a send.
C17_MonitorCancelledOnClose ==
    [][\A b \in Bots :
          rl[b] = "closed" => /\ hb'[b] = hb[b]
                              /\ sent'[b] = sent[b]
                              /\ last'.op # "heartbeat"]_vars

\* C18: when the handler of a matching entry raises, every later entry that
\* is not suppressed still has its predicate evaluated and, if it matches, its
\* handler called, and the read loop goes on reading.
C18_HandlerFailureIsolated ==
    [][\A e \in Bots :
          ChatHandled(e, e) /\ user[e] # None =>
              \A i \in 1..Len(match_registry[1]) : \A j \in (i + 1)..Len(match_registry[1]) :
                  LET a == match_registry[1][i]
                      c == match_registry[1][j]
                      msg == lastMsg'.d
                  IN  /\ ~SkipsSelf(e, a, msg) /\ Matches(a.matcher, msg)
                      /\ Raises(match_registry[2][i].fn)
                      /\ ~SkipsSelf(e, c, msg) /\ Matches(c.matcher, msg)
                      => /\ Ev("matcher", c.matcher, j) \in Range(trace')
                         /\ Ev("match_func", match_registry[2][j].fn, j) \in Range(trace')
                         /\ rl'[e] = "reading"]_vars


\* C19: the read loop handles one envelope at a time, in arrival order: the
\* handling of an envelope begins only when every earlier handling has
\* completed, the handling that completes is that of the envelope begun last,
\* and while a handler is suspended the only steps taken are those of the
\* heartbeat tasks.
C19_OneAtATime ==
    [][\A b \in Bots :
          /\ handling'[b].begun - handling'[b].done \in {0, 1}
          /\ handling'[b].begun = handling[b].begun + 1 =>
                 /\ handling[b].msg = NoMsg
                 /\ handling[b].begun = handling[b].done
          /\ handling'[b].done = handling[b].done + 1 =>
                 /\ last'.arg = handling[b].msg
                 /\ handling'[b].msg = NoMsg
                 /\ handling'[b].done = handling[b].begun
          /\ (handling[b].msg # NoMsg /\ handling'[b] = handling[b]) =>
                 last'.op \in {"heartbeat", "heartbeat_reset"}]_vars

\* While the handler of the second envelope is suspended, a heartbeat task has
\* run a cycle; the first envelope's handling had completed before.
C19_Witness ==
    /\ handling[1].msg # NoMsg
    /\ handling[1].begun = 2
    /\ handling[1].done = 1
    /\ rl[1] = "handling"
    /\ last.op = "heartbeat"


\* The position of task i in a log of tasks, 0 when it is not in it.
Pos(log, i) ==
    IF \E k \in 1..Len(log) : log[k] = i
    THEN CHOOSE k \in 1..Len(log) : log[k] = i
    ELSE 0

\* Task i's entry precedes task j's in the log whenever task j's is in it.
Before(log, i, j) ==
    Pos(log, j) # 0 => (Pos(log, i) # 0 /\ Pos(log, i) < Pos(log, j))

\* C20: for any two sends submitted to the same channel, the request of the
\* earlier submission reaches the REST API, and completes, before that of the
\* later one.
C20_SendOrderPerChannel ==
    \A i \in 1..Len(rest.tasks) : \A j \in (i + 1)..Len(rest.tasks) :
        rest.tasks[i].channel_id = rest.tasks[j].channel_id =>
            /\ Before(rest.requests, i, j)
            /\ Before(rest.responses, i, j)


\* C21: with one heartbeat task, a cycle that begins after a HeartbeatAck was
\* handled since the previous heartbeat was written (also one handled while
\* the task was still suspended in that send) finds ack true and reports nothing.
C21_AckNeverLost ==
    [][\A b \in Bots :
          Len(hb[b]) = 1 /\ CycleBegins(b, 1) /\ ackSince[b] =>
              /\ ack[b]
              /\ ~hb'[b][1].flag
              /\ Ev("fatal", "HEARTBEAT_ACK", 1) \notin Range(trace')]_vars

\* C22: a MESSAGE_CREATE handled while user is still None does not raise
\* TypeError: the message is buffered and every entry, whatever its
\* no_self_respond, has its predicate evaluated and, if it matches, its
\* handler called.
C22_MessageBeforeReady ==
    [][\A e \in Bots :
          ChatHandled(e, e) /\ user[e] = None =>
              /\ exc' # "TypeError"
              /\ channelBuffer' = BufferAppend(e, lastMsg'.d)
              /\ \A i \in 1..Len(match_registry[1]) :
                     LET entry == match_registry[1][i]
                     IN  /\ Ev("matcher", entry.matcher, i) \in Range(trace')
                         /\ (Matches(entry.matcher, lastMsg'.d) /\ exc' = None) =>
                                Ev("match_func", match_registry[2][i].fn, i) \in Range(trace')]_vars

=============================================================================
